---------------------------- MODULE Spec2Model ----------------------------
(***************************************************************************)
(* Bagify receipt tracker: the receipt store behind the HTTP API (three    *)
(* backend variants), the client's aging calculator, and the client's      *)
(* upload pipeline.                                                        *)
(*                                                                         *)
(*   variant = "memory"    src/unnamed/part_005 lines 1-233                *)
(*   variant = "firebase"  src/backend/server.js                           *)
(*   variant = "legacy"    src/unnamed/part_005 lines 235-530              *)
(*                                                                         *)
(* A JSON body is a function from the keys it carries to their values; a   *)
(* key that is absent is not in its DOMAIN.  An order date "YYYY-MM-DD" is *)
(* carried as its three numeric fields <<y, m, d>>, the sentinel "N/A" as  *)
(* <<"N/A">>.  Timestamps are milliseconds of the clock `now`.             *)
(***************************************************************************)
EXTENDS Integers, Sequences, FiniteSets, TLC

VARIABLES
    variant,              \* which backend file is running
    firebaseInitialized,  \* server.js: the flag set at start-up
    receipts,             \* the stored records (memory: the array, in order)
    receiptId,            \* memory: the next id
    docIds,               \* Firestore: number of auto-generated keys so far
    now,                  \* the server's clock, in ms
    steps,                \* state-changing requests and clock ticks so far
    deleted,              \* history: ids of the records a DELETE removed
    req,                  \* the request answered by the last step
    resp,                 \* its response
    agingInput,           \* aging calculator: the orderDate given
    agingResult,          \* aging calculator: what it returned
    clientVariant,        \* which processReceiptFile the page runs
    clientNow,            \* the browser's clock (Date.now())
    appReceipts,          \* App: the `receipts` state
    processingFiles,      \* App: the `processingFiles` state
    userMessage,          \* App: the `userMessage` state
    batches,              \* the calls of handleFilesProcess, each with its locals
    removedIds,           \* history: ids deleteReceipt removed from the page
    settled,              \* history: the processReceiptFile calls that settled
    rowReceipt,           \* ReceiptRow: the `receipt` prop (status, daysPassed)
    rowShown,             \* ReceiptRow: what the last render showed for it
    puts                  \* Firestore PUT calls past their update(), each with its locals

serverVars == <<variant, firebaseInitialized, receipts, receiptId, docIds,
                now, steps, deleted, req, resp>>
agingVars == <<agingInput, agingResult>>
clientVars == <<clientVariant, clientNow, appReceipts, processingFiles,
                userMessage, batches, removedIds,
                settled>>
rowVars == <<rowReceipt, rowShown>>
raceVars == <<puts>>
vars == <<serverVars, agingVars, clientVars, rowVars, raceVars>>

\* Bound: state-changing requests (Create, Update, Delete) and clock ticks
\* in one run.
MaxSteps == 3

\* Bounds of the page: calls of handleFilesProcess, files in one call, and
\* milliseconds of the browser's clock.
MaxBatches == 2
MaxBatchFiles == 2
MaxClientTicks == 2

-----------------------------------------------------------------------------
(* JavaScript values *)

NA == <<"N/A">>

Has(body, k) == k \in DOMAIN body

\* `body.k || dflt` for a string-valued key: absent and "" are falsy.
OrStr(body, k, dflt) == IF Has(body, k) /\ body[k] # "" THEN body[k] ELSE dflt

\* `body.k || dflt` for a number-valued key: absent and 0 are falsy.
OrNum(body, k, dflt) == IF Has(body, k) /\ body[k] # 0 THEN body[k] ELSE dflt

\* `!body.k` for a string-valued key.
Falsy(body, k) == ~Has(body, k) \/ body[k] = ""

-----------------------------------------------------------------------------
(* Aging calculator: calculateDateDifference (client) *)

WindowDays == 18

\* (1000 * 60 * 60 * 24) ms.  Times are carried in whole seconds, the unit in
\* which getTime() of 2025 fits TLC's 32-bit integers; a date-only
\* string has no fraction of a second.
SecPerDay == 60 * 60 * 24

\* Math.ceil(a / b) for b > 0.
Ceil(a, b) == -((-a) \div b)

\* new Date("YYYY-MM-DD").getTime(): a date-only ISO string is UTC midnight
\* of that civil day; the day number is ECMAScript's MakeDay.
DateGetTime(date) ==
    LET y   == IF date[2] <= 2 THEN date[1] - 1 ELSE date[1]
        era == y \div 400
        yoe == y - era * 400
        mp  == IF date[2] > 2 THEN date[2] - 3 ELSE date[2] + 9
        doy == ((153 * mp + 2) \div 5) + date[3] - 1
        doe == yoe * 365 + (yoe \div 4) - (yoe \div 100) + doy
    IN  (era * 146097 + doe - 719468) * SecPerDay

\* const today = new Date('2025-10-24')
Today == <<2025, 10, 24>>

\* calculateDateDifference whose N/A case returns a zero window (daysLeft 0):
\* the calculator C11 must tell apart from the code's.
calculateDateDifferenceNAExpired(orderDate) ==
    IF orderDate = NA THEN [daysPassed |-> 0, daysLeft |-> 0]
    ELSE LET diffTime   == DateGetTime(Today) - DateGetTime(orderDate)
             daysPassed == Ceil(diffTime, SecPerDay)
         IN  [daysPassed |-> daysPassed, daysLeft |-> WindowDays - daysPassed]

\* calculateDateDifference with the difference taken the other way round
\* (order date minus today): the calculator C10 must tell apart from the code's.
calculateDateDifferenceSwapped(orderDate) ==
    IF orderDate = NA THEN [daysPassed |-> 0, daysLeft |-> WindowDays]
    ELSE LET diffTime   == DateGetTime(orderDate) - DateGetTime(Today)
             daysPassed == Ceil(diffTime, SecPerDay)
         IN  [daysPassed |-> daysPassed, daysLeft |-> WindowDays - daysPassed]

calculateDateDifference(orderDate) ==
    IF orderDate = NA THEN [daysPassed |-> 0, daysLeft |-> WindowDays]
    ELSE LET orderDateTime == DateGetTime(orderDate)
             todayTime     == DateGetTime(Today)
             diffTime      == todayTime - orderDateTime
             daysPassed    == Ceil(diffTime, SecPerDay)
             daysLeft      == WindowDays - daysPassed
         IN  [daysPassed |-> daysPassed, daysLeft |-> daysLeft]

-----------------------------------------------------------------------------
(* Requests *)

\* The body processReceiptFile posts for a file whose extracted date is d
\* (receiptData, backend variant of the client).
ReceiptData(d) ==
    [imageSrc      |-> "blob:img",
     extractedText |-> "txt",
     orderDate     |-> d,
     daysPassed    |-> calculateDateDifference(d).daysPassed,
     daysLeft      |-> calculateDateDifference(d).daysLeft,
     status        |-> "Pending",
     note          |-> "",
     fileName      |-> "a.jpg"]

\* 2025-10-19, -06, -05: 5, 18 and 19 days before `Today`.
PipelineDates == {NA, <<2025, 10, 19>>, <<2025, 10, 6>>, <<2025, 10, 5>>}

PipelineBodies == {ReceiptData(d) : d \in PipelineDates}

\* imageSrc and extractedText only.
MinimalBody == [imageSrc |-> "blob:img", extractedText |-> "txt"]

\* Aging fields that were not computed from an order date.
UntrustedBody ==
    [imageSrc |-> "blob:img", extractedText |-> "txt",
     daysPassed |-> 4, daysLeft |-> 3, fileName |-> "a.jpg"]

InvalidBodies ==
    {[extractedText |-> "txt"], [imageSrc |-> "blob:img"]}

CreateBodies ==
    PipelineBodies \cup {MinimalBody, UntrustedBody} \cup InvalidBodies

UpdateBodies ==
    {[note |-> "late"],
     [status |-> "Done"],
     [status |-> "Delayed/Excused", note |-> "excused", updatedBy |-> "bob"]}

\* Ids a client may name: every id issued so far and one never issued.
RequestIds == 1 .. (IF variant = "memory" THEN receiptId ELSE docIds + 1)

NoRequest == [op |-> "none"]
NoResponse == [code |-> 0]

-----------------------------------------------------------------------------
(* The store *)

Range(s) == {s[i] : i \in DOMAIN s}

Ids(s) == {s[i].id : i \in DOMAIN s}

\* receipts.find(r => r.id === id) / doc(id).get()
Find(s, id) == s[CHOOSE i \in DOMAIN s : s[i].id = id /\ \A j \in 1 .. (i - 1) : s[j].id # id]

\* receipts.filter(r => r.id !== id) / doc(id).delete()
Without(s, id) == SelectSeq(s, LAMBDA r : r.id # id)

\* The records of s with the first one of id `id` replaced by r: the
\* in-memory variant mutates the record find() returned, and a Firestore
\* document is its key's only one.
ReplaceRecord(s, id, r) ==
    LET i == CHOOSE k \in DOMAIN s : s[k].id = id /\ \A j \in 1 .. (k - 1) : s[j].id # id
    IN  [s EXCEPT ![i] = r]

\* One step of a stable sort by (a, b) => new Date(b.uploadedAt) - new
\* Date(a.uploadedAt): r goes after every record that is not older than it.
RECURSIVE InsertDesc(_, _)
InsertDesc(r, s) ==
    IF s = <<>> THEN <<r>>
    ELSE IF s[Len(s)].uploadedAt >= r.uploadedAt THEN Append(s, r)
    ELSE Append(InsertDesc(r, SubSeq(s, 1, Len(s) - 1)), s[Len(s)])

\* receipts.sort(...): Array.prototype.sort is stable.
RECURSIVE SortDesc(_)
SortDesc(s) ==
    IF s = <<>> THEN <<>>
    ELSE InsertDesc(s[Len(s)], SortDesc(SubSeq(s, 1, Len(s) - 1)))

\* collection.orderBy('uploadedAt', 'desc').get(): every order of the
\* documents in which uploadedAt never increases.
OrderedDesc(s) ==
    {t \in {[i \in 1 .. Len(s) |-> s[p[i]]] : p \in Permutations(1 .. Len(s))} :
        \A i \in 1 .. (Len(t) - 1) : t[i].uploadedAt >= t[i + 1].uploadedAt}

-----------------------------------------------------------------------------
(* HTTP handlers.  The in-memory handlers are synchronous; a Firestore call  *)
(* is one atomic operation of the store.                                     *)

Variants == {"memory", "firebase", "legacy"}

AlertMinDays == 5
AlertMaxDays == 18
DefaultDaysLeft == 18

\* server.js: `if (!firebaseInitialized) return res.status(503)`
StoreDown == variant = "firebase" /\ ~firebaseInitialized

Answer(request, code, body) ==
    /\ req' = request
    /\ resp' = [code |-> code, body |-> body]

\* The guard answering as a failed store call does (500): the answer C16 must
\* tell apart from the code's.
UnavailableAsServerError(request) ==
    /\ Answer(request, 500, [error |-> "Firebase not initialized"])
    /\ UNCHANGED <<variant, firebaseInitialized, receipts, receiptId, docIds,
                   now, steps, deleted>>


Unavailable(request) ==
    /\ Answer(request, 503, [error |-> "Firebase not initialized"])
    /\ UNCHANGED <<variant, firebaseInitialized, receipts, receiptId, docIds,
                   now, steps, deleted>>

\* The Firestore client rejects a document holding an undefined value
\* (ignoreUndefinedProperties is not set), before anything is written.
HasUndefined(body, keys) == \E k \in keys : ~Has(body, k)

\* GET /api/receipts keeping in the store only the newest record it returns
\* (in-memory): the handler C27 must tell apart from the code's.
GetReceiptsTruncating ==
    LET request == [op |-> "list"] IN
    IF StoreDown THEN Unavailable(request)
    ELSE /\ IF variant = "memory"
               THEN /\ receipts' = IF receipts = <<>> THEN <<>>
                                 ELSE <<SortDesc(receipts)[1]>>
                    /\ Answer(request, 200, receipts')
               ELSE /\ \E sorted \in OrderedDesc(receipts) :
                          Answer(request, 200, sorted)
                    /\ UNCHANGED receipts
         /\ UNCHANGED <<variant, firebaseInitialized, receiptId, docIds, now,
                        steps, deleted>>

\* GET /api/receipts
GetReceipts ==
    LET request == [op |-> "list"] IN
    IF StoreDown THEN Unavailable(request)
    ELSE /\ IF variant = "memory"
               THEN /\ receipts' = SortDesc(receipts)
                    /\ Answer(request, 200, receipts')
               ELSE /\ \E sorted \in OrderedDesc(receipts) :
                          Answer(request, 200, sorted)
                    /\ UNCHANGED receipts
         /\ UNCHANGED <<variant, firebaseInitialized, receiptId, docIds, now,
                        steps, deleted>>

\* newReceipt with the aging fields derived from the order date instead of
\* copied from the body: the handler C9's original wording describes.
NewReceiptDerivesAging(id, body) ==
    LET orderDate == IF Has(body, "orderDate") THEN body.orderDate ELSE NA IN
    [id            |-> id,
     imageSrc      |-> body.imageSrc,
     extractedText |-> body.extractedText,
     orderDate     |-> orderDate,
     daysPassed    |-> calculateDateDifference(orderDate).daysPassed,
     daysLeft      |-> calculateDateDifference(orderDate).daysLeft,
     status        |-> "Pending",
     note          |-> "",
     fileName      |-> OrStr(body, "fileName", "receipt-" \o ToString(now)),
     uploadedAt    |-> now,
     updatedAt     |-> now,
     updatedBy     |-> "system"]

\* The record POST /api/receipts builds (memory: newReceipt; server.js: docRef.id
\* and receiptData).
NewReceipt(id, body) ==
    [id            |-> id,
     imageSrc      |-> body.imageSrc,
     extractedText |-> body.extractedText,
     orderDate     |-> IF Has(body, "orderDate") THEN body.orderDate ELSE NA,
     daysPassed    |-> OrNum(body, "daysPassed", 0),
     daysLeft      |-> OrNum(body, "daysLeft", DefaultDaysLeft),
     status        |-> "Pending",
     note          |-> "",
     fileName      |-> OrStr(body, "fileName", "receipt-" \o ToString(now)),
     uploadedAt    |-> now,
     updatedAt     |-> now,
     updatedBy     |-> "system"]

\* The record the legacy POST /api/receipts stores: the body's values as sent.
LegacyReceipt(id, body) ==
    [id            |-> id,
     imageSrc      |-> body.imageSrc,
     extractedText |-> body.extractedText,
     orderDate     |-> body.orderDate,
     daysPassed    |-> body.daysPassed,
     daysLeft      |-> body.daysLeft,
     status        |-> "Pending",
     note          |-> "",
     fileName      |-> body.fileName,
     uploadedAt    |-> now,
     updatedAt     |-> now,
     updatedBy     |-> "system"]

LegacyCreateKeys ==
    {"imageSrc", "extractedText", "orderDate", "daysPassed", "daysLeft", "fileName"}

\* POST /api/receipts
PostReceipt(body) ==
    LET request == [op |-> "create", body |-> body] IN
    IF StoreDown THEN Unavailable(request)
    ELSE IF variant = "legacy" THEN
        IF HasUndefined(body, LegacyCreateKeys)
        THEN /\ Answer(request, 500, [error |-> "Cannot use undefined as a Firestore value"])
             /\ UNCHANGED <<variant, firebaseInitialized, receipts, receiptId,
                            docIds, now, steps, deleted>>
        ELSE /\ steps < MaxSteps
             /\ docIds' = docIds + 1
             /\ receipts' = Append(receipts, LegacyReceipt(docIds', body))
             /\ Answer(request, 200, LegacyReceipt(docIds', body))
             /\ steps' = steps + 1
             /\ UNCHANGED <<variant, firebaseInitialized, receiptId, now, deleted>>
    ELSE IF Falsy(body, "imageSrc") \/ Falsy(body, "extractedText")
        THEN /\ Answer(request, 400, [error |-> "imageSrc and extractedText are required"])
             /\ UNCHANGED <<variant, firebaseInitialized, receipts, receiptId,
                            docIds, now, steps, deleted>>
    ELSE IF variant = "memory"
        THEN /\ steps < MaxSteps
             /\ receiptId' = receiptId + 1
             /\ receipts' = Append(receipts, NewReceipt(receiptId, body))
             /\ Answer(request, 201, NewReceipt(receiptId, body))
             /\ steps' = steps + 1
             /\ UNCHANGED <<variant, firebaseInitialized, docIds, now, deleted>>
        ELSE /\ steps < MaxSteps
             /\ docIds' = docIds + 1
             /\ receipts' = Append(receipts, NewReceipt(docIds', body))
             /\ Answer(request, 201, NewReceipt(docIds', body))
             /\ steps' = steps + 1
             /\ UNCHANGED <<variant, firebaseInitialized, receiptId, now, deleted>>

\* The in-memory update leaving updatedBy alone when the body omits it: the
\* update C22's original wording describes.
MemoryUpdateKeepsActor(r, body) ==
    [r EXCEPT !.status    = OrStr(body, "status", r.status),
              !.note      = IF Has(body, "note") THEN body.note ELSE r.note,
              !.updatedAt = now,
              !.updatedBy = OrStr(body, "updatedBy", r.updatedBy)]

\* memory: `if (status) ...; if (note !== undefined) ...; updatedBy || 'user'`
MemoryUpdate(r, body) ==
    [r EXCEPT !.status    = OrStr(body, "status", r.status),
              !.note      = IF Has(body, "note") THEN body.note ELSE r.note,
              !.updatedAt = now,
              !.updatedBy = OrStr(body, "updatedBy", "user")]

\* The server.js update also restamping uploadedAt: the update C23 must tell
\* apart from the code's.
FirebaseUpdateRestamps(r, body) ==
    [r EXCEPT !.status     = OrStr(body, "status", "Pending"),
              !.note       = OrStr(body, "note", ""),
              !.updatedAt  = now,
              !.uploadedAt = now,
              !.updatedBy  = OrStr(body, "updatedBy", "user")]

\* server.js: updateData = {status: status || 'Pending', note: note || '', ...}
FirebaseUpdate(r, body) ==
    [r EXCEPT !.status    = OrStr(body, "status", "Pending"),
              !.note      = OrStr(body, "note", ""),
              !.updatedAt = now,
              !.updatedBy = OrStr(body, "updatedBy", "user")]

\* legacy: updateData = {status, note, ..., updatedBy: updatedBy || 'unknown'}
LegacyUpdate(r, body) ==
    [r EXCEPT !.status    = body.status,
              !.note      = body.note,
              !.updatedAt = now,
              !.updatedBy = OrStr(body, "updatedBy", "unknown")]

UpdateRecord(r, body) ==
    IF variant = "memory" THEN MemoryUpdate(r, body)
    ELSE IF variant = "firebase" THEN FirebaseUpdate(r, body)
    ELSE LegacyUpdate(r, body)

\* PUT /api/receipts/:id
PutReceipt(id, body) ==
    LET request == [op |-> "update", id |-> id, body |-> body]
        updated == ReplaceRecord(receipts, id, UpdateRecord(Find(receipts, id), body))
    IN
    IF StoreDown THEN Unavailable(request)
    ELSE IF variant = "legacy" /\ HasUndefined(body, {"status", "note"})
        THEN /\ Answer(request, 500, [error |-> "Cannot use undefined as a Firestore value"])
             /\ UNCHANGED <<variant, firebaseInitialized, receipts, receiptId,
                            docIds, now, steps, deleted>>
    ELSE IF id \notin Ids(receipts)
        THEN \* memory: 404; Firestore: update() of a missing document throws
             /\ IF variant = "memory"
                   THEN Answer(request, 404, [error |-> "Receipt not found"])
                   ELSE Answer(request, 500, [error |-> "No document to update"])
             /\ UNCHANGED <<variant, firebaseInitialized, receipts, receiptId,
                            docIds, now, steps, deleted>>
    ELSE /\ steps < MaxSteps
         /\ receipts' = updated
         /\ Answer(request, 200, Find(updated, id))
         /\ steps' = steps + 1
         /\ UNCHANGED <<variant, firebaseInitialized, receiptId, docIds, now, deleted>>

\* DELETE /api/receipts/:id
DeleteReceipt(id) ==
    LET request == [op |-> "delete", id |-> id] IN
    IF StoreDown THEN Unavailable(request)
    ELSE IF variant = "memory" /\ id \notin Ids(receipts)
        THEN /\ Answer(request, 404, [error |-> "Receipt not found"])
             /\ UNCHANGED <<variant, firebaseInitialized, receipts, receiptId,
                            docIds, now, steps, deleted>>
    ELSE \* Firestore: delete() of a missing document succeeds
         /\ id \in Ids(receipts) => steps < MaxSteps
         /\ receipts' = Without(receipts, id)
         /\ deleted' = deleted \cup ({id} \cap Ids(receipts))
         /\ steps' = IF id \in Ids(receipts) THEN steps + 1 ELSE steps
         /\ IF variant = "legacy"
               THEN Answer(request, 200, [success |-> TRUE, message |-> "Receipt deleted"])
               ELSE Answer(request, 200,
                           [success |-> TRUE, message |-> "Receipt deleted", id |-> id])
         /\ UNCHANGED <<variant, firebaseInitialized, receiptId, docIds, now>>

\* The alerts filter without its status test: the filter C29 must tell apart
\* from the code's.
AlertableAnyStatus(r) ==
    r.daysPassed >= AlertMinDays /\ r.daysPassed <= AlertMaxDays

\* The alerts filter without its upper end (daysPassed <= 18): the filter C1
\* must tell apart from the code's.
AlertableNoUpperBound(r) ==
    r.status = "Pending" /\ r.daysPassed >= AlertMinDays

\* The filter of GET /api/alerts (memory: one filter; Firestore:
\* where('status', '==', 'Pending'), then the daysPassed test).
Alertable(r) ==
    r.status = "Pending" /\ r.daysPassed >= AlertMinDays /\ r.daysPassed <= AlertMaxDays

\* GET /api/alerts
GetAlerts ==
    LET request == [op |-> "alerts"] IN
    IF StoreDown THEN Unavailable(request)
    ELSE /\ Answer(request, 200, SelectSeq(receipts, Alertable))
         /\ UNCHANGED <<variant, firebaseInitialized, receipts, receiptId,
                        docIds, now, steps, deleted>>

\* The stats body with alertReceipts counted over the alerts window (an upper
\* end at 18): the count C14 must tell apart from the code's.
StatsWindowed(s) ==
    [totalReceipts     |-> Len(s),
     pendingReceipts   |-> Len(SelectSeq(s, LAMBDA r : r.status = "Pending")),
     completedReceipts |-> Len(SelectSeq(s, LAMBDA r : r.status = "Done")),
     alertReceipts     |-> Len(SelectSeq(s, LAMBDA r : r.status = "Pending"
                                                  /\ r.daysPassed >= AlertMinDays
                                                  /\ r.daysPassed <= AlertMaxDays))]

\* The body of GET /api/stats.
Stats(s) ==
    [totalReceipts     |-> Len(s),
     pendingReceipts   |-> Len(SelectSeq(s, LAMBDA r : r.status = "Pending")),
     completedReceipts |-> Len(SelectSeq(s, LAMBDA r : r.status = "Done")),
     alertReceipts     |-> Len(SelectSeq(s, LAMBDA r : r.status = "Pending"
                                                  /\ r.daysPassed >= AlertMinDays))]

\* GET /api/stats (the legacy file registers no such route)
GetStats ==
    LET request == [op |-> "stats"] IN
    IF StoreDown THEN Unavailable(request)
    ELSE /\ IF variant = "legacy"
               THEN Answer(request, 404, [error |-> "Cannot GET /api/stats"])
               ELSE Answer(request, 200, Stats(receipts))
         /\ UNCHANGED <<variant, firebaseInitialized, receipts, receiptId,
                        docIds, now, steps, deleted>>

\* GET /health (the legacy file registers no such route)
GetHealth ==
    LET request == [op |-> "health"] IN
    /\ CASE variant = "memory" ->
              Answer(request, 200, [status |-> "ok", timestamp |-> now])
         [] variant = "firebase" ->
              Answer(request, 200,
                     [status    |-> "ok",
                      firebase  |-> IF firebaseInitialized THEN "connected"
                                                           ELSE "disconnected",
                      timestamp |-> now])
         [] variant = "legacy" ->
              Answer(request, 404, [error |-> "Cannot GET /health"])
    /\ UNCHANGED <<variant, firebaseInitialized, receipts, receiptId, docIds,
                   now, steps, deleted>>

-----------------------------------------------------------------------------
(* Alert delivery: sendTelegramMessage and the legacy file's scan *)

\* What the notification sink does with a send: it delivers, it is not
\* configured (no token or chat id in the environment), or the send throws.
Sinks == {"delivers", "unconfigured", "throws"}

\* try { body } catch (error) { console.error(...) }: a throw inside is logged
\* and the statement completes.
TryCatch(body) ==
    IF body.thrown THEN [body EXCEPT !.thrown = FALSE, !.logged = TRUE] ELSE body

\* sendTelegramMessage with the post outside any try: the function C20 must
\* tell apart from the code's.
sendTelegramMessageUncaught(sink) ==
    [thrown |-> sink # "delivers", logged |-> FALSE, posted |-> sink = "delivers"]

\* sendTelegramMessage(message).  In-memory file and server.js: return when
\* the token or the chat id is missing, else log (the post is commented out).
\* Legacy file: post inside try/catch; without a token the request is
\* rejected, which axios throws.
sendTelegramMessage(sink) ==
    IF variant = "legacy"
    THEN TryCatch([thrown |-> sink # "delivers",
                   logged |-> FALSE,
                   posted |-> sink = "delivers"])
    ELSE IF sink = "unconfigured"
         THEN [thrown |-> FALSE, logged |-> TRUE, posted |-> FALSE]
         ELSE TryCatch([thrown |-> FALSE, logged |-> TRUE, posted |-> FALSE])

\* The tier line with OVERDUE beginning at day 18: the labelling C25 must
\* tell apart from the code's.
ScanTierOverdueAtWindowEnd(r) ==
    IF r.daysPassed >= 18 THEN "OVERDUE"
    ELSE IF r.daysPassed >= 9 THEN "DUE SOON"
    ELSE "DAY 5+"

\* The tier line checkAndSendAlerts writes for a record.
ScanTier(r) ==
    IF r.daysPassed > 18 THEN "OVERDUE"
    ELSE IF r.daysPassed >= 9 THEN "DUE SOON"
    ELSE "DAY 5+"

\* checkAndSendAlerts(): `read` tells whether the Firestore query succeeds.
checkAndSendAlerts(sink, read) ==
    LET pending == SelectSeq(receipts, LAMBDA r : r.status = "Pending")
        alerts  == SelectSeq(pending, LAMBDA r : r.daysPassed >= 5 /\ r.daysPassed <= 18)
        tiers   == [k \in DOMAIN alerts |-> ScanTier(alerts[k])]
        nothing == [thrown |-> FALSE, logged |-> FALSE, posted |-> FALSE]
        send    == IF Len(alerts) > 0 THEN sendTelegramMessage(sink) ELSE nothing
    IN  TryCatch(IF read = "fails"
                 THEN [thrown |-> TRUE, logged |-> FALSE, posted |-> FALSE,
                       sendThrown |-> FALSE, alertCount |-> 0, tiers |-> <<>>,
                       listed |-> <<>>, sendCalled |-> FALSE]
                 ELSE [thrown |-> send.thrown, logged |-> send.logged,
                       posted |-> send.posted, sendThrown |-> send.thrown,
                       alertCount |-> Len(alerts), tiers |-> tiers,
                       listed |-> alerts, sendCalled |-> Len(alerts) > 0])

\* A call of sendTelegramMessage.
SendTelegram(sink) ==
    /\ req' = [op |-> "send", sink |-> sink]
    /\ resp' = [code |-> 0, body |-> sendTelegramMessage(sink)]
    /\ UNCHANGED <<variant, firebaseInitialized, receipts, receiptId, docIds,
                   now, steps, deleted>>

\* The cron job of the legacy file runs checkAndSendAlerts.
ScanAlerts(sink, read) ==
    /\ variant = "legacy"
    /\ req' = [op |-> "scan", sink |-> sink, read |-> read]
    /\ resp' = [code |-> 0, body |-> checkAndSendAlerts(sink, read)]
    /\ UNCHANGED <<variant, firebaseInitialized, receipts, receiptId, docIds,
                   now, steps, deleted>>

\* A millisecond passes on the server.
Tick ==
    /\ steps < MaxSteps
    /\ now' = now + 1
    /\ steps' = steps + 1
    /\ req' = NoRequest
    /\ resp' = NoResponse
    /\ UNCHANGED <<variant, firebaseInitialized, receipts, receiptId, docIds, deleted>>

-----------------------------------------------------------------------------
(* The page: App.handleFilesProcess and processReceiptFile.  A call of       *)
(* processReceiptFile awaits the extraction service (and, in the backend     *)
(* variant, the POST): it settles at least one millisecond after it began.   *)

ClientVariants == {"local", "backend"}

FileNames == {"a.jpg", "b.jpg"}

\* The file lists a drop, a file dialog or a Drive sync hands to onProcess
\* (never empty: handleFileSelect and pickerCallback test the length).
RECURSIVE FileLists(_)
FileLists(n) ==
    IF n = 0 THEN {<<>>}
    ELSE FileLists(n - 1) \cup
         {Append(l, f) : l \in {x \in FileLists(n - 1) : Len(x) = n - 1}, f \in FileNames}

Submittable == FileLists(MaxBatchFiles) \ {<<>>}

\* The order date the model call extracts from the files of this model.
ExtractedDate == <<2025, 10, 6>>

\* Date.now() when the page opens: far above any id of the backend's counter.
PageOpenedAt == DateGetTime(Today)

\* What the calls a processReceiptFile awaits can do.
Outcomes == {"ok", "extractionFails", "saveFails"}

NoMessage == [type |-> "none"]

\* processReceiptFile's result for a processed file (local variant: id is
\* Date.now(); backend variant: backendReceipt.id || Date.now()).
ProcessedReceipt(id, name) ==
    [id            |-> id,
     imageSrc      |-> "blob:img",
     extractedText |-> "txt",
     orderDate     |-> ExtractedDate,
     daysPassed    |-> calculateDateDifference(ExtractedDate).daysPassed,
     daysLeft      |-> calculateDateDifference(ExtractedDate).daysLeft,
     status        |-> "Pending",
     note          |-> "",
     fileName      |-> name]

\* The backend variant's catch: the local receipt it still returns.
ErrorReceipt(name) ==
    [id            |-> clientNow,
     imageSrc      |-> "blob:img",
     extractedText |-> "Error processing image",
     orderDate     |-> NA,
     daysPassed    |-> 0,
     daysLeft      |-> 18,
     status        |-> "Pending",
     note          |-> "Error: Could not process receipt",
     fileName      |-> name]

\* setProcessingFiles(prev => prev.filter(name => !newProcessingFiles.includes(name)))
WithoutNames(names, batchFiles) ==
    SelectSeq(names, LAMBDA n : n \notin Range(batchFiles))

\* handleFilesProcess(files), up to its first await.
StartBatch(files) ==
    /\ Len(batches) < MaxBatches
    /\ userMessage' = NoMessage
    /\ processingFiles' = processingFiles \o files
    /\ batches' = Append(batches,
                         [files       |-> files,
                          i           |-> 1,
                          running     |-> TRUE,
                          beganAt     |-> clientNow,
                          newReceipts |-> <<>>,
                          hadError    |-> FALSE])
    /\ UNCHANGED <<clientVariant, clientNow, appReceipts, removedIds, settled>>

\* The tail of handleFilesProcess, after its loop.
FinishBatch(b, newReceipts, hadError, message) ==
    /\ appReceipts' = newReceipts \o appReceipts
    /\ processingFiles' = WithoutNames(processingFiles, batches[b].files)
    /\ userMessage' =
          IF Len(newReceipts) > 0
             THEN [type |-> "success", count |-> Len(newReceipts)]
          ELSE IF ~hadError /\ Len(batches[b].files) > 0
             THEN [type |-> "error", text |-> "Could not process any"]
          ELSE message
    /\ batches' = [batches EXCEPT ![b] = [@ EXCEPT !.running = FALSE,
                                                   !.newReceipts = newReceipts,
                                                   !.hadError = hadError]]

\* The loop without its try/catch, a throw ending the call of
\* handleFilesProcess at once: the loop C17 must tell apart from the code's.
LoopTurnStopsOnThrow(b, thrown, receipt) ==
    LET batch       == batches[b]
        name        == batch.files[batch.i]
        newReceipts == IF thrown THEN batch.newReceipts
                       ELSE Append(batch.newReceipts, receipt)
        hadError    == batch.hadError \/ thrown
        message     == IF thrown THEN [type |-> "error", file |-> name] ELSE userMessage
    IN  IF batch.i < Len(batch.files) /\ ~thrown
        THEN /\ batches' = [batches EXCEPT ![b] = [@ EXCEPT !.i = batch.i + 1,
                                                            !.beganAt = clientNow,
                                                            !.newReceipts = newReceipts,
                                                            !.hadError = hadError]]
             /\ userMessage' = message
             /\ UNCHANGED <<appReceipts, processingFiles>>
        ELSE FinishBatch(b, newReceipts, hadError, message)

\* One turn of the loop of handleFilesProcess: processReceiptFile(file) has
\* returned `receipt` or (thrown = TRUE) thrown; the next call begins, or the
\* tail runs.
LoopTurn(b, thrown, receipt) ==
    LET batch       == batches[b]
        name        == batch.files[batch.i]
        newReceipts == IF thrown THEN batch.newReceipts
                       ELSE Append(batch.newReceipts, receipt)
        hadError    == batch.hadError \/ thrown
        message     == IF thrown THEN [type |-> "error", file |-> name] ELSE userMessage
    IN  IF batch.i < Len(batch.files)
        THEN /\ batches' = [batches EXCEPT ![b] = [@ EXCEPT !.i = batch.i + 1,
                                                            !.beganAt = clientNow,
                                                            !.newReceipts = newReceipts,
                                                            !.hadError = hadError]]
             /\ userMessage' = message
             /\ UNCHANGED <<appReceipts, processingFiles>>
        ELSE FinishBatch(b, newReceipts, hadError, message)

\* The awaited processReceiptFile(file) of call b settles (local variant).
SettleLocal(b, outcome) ==
    /\ clientVariant = "local"
    /\ outcome \in {"ok", "extractionFails"}
    /\ LoopTurn(b, outcome # "ok",
                ProcessedReceipt(clientNow, batches[b].files[batches[b].i]))
    /\ UNCHANGED <<clientVariant, clientNow, removedIds, serverVars>>

\* The awaited processReceiptFile(file) of call b settles (backend variant):
\* it POSTs receiptData, and returns a local receipt from its catch when the
\* extraction or the save failed.
SettleBackend(b, outcome) ==
    /\ clientVariant = "backend"
    /\ LET name == batches[b].files[batches[b].i] IN
       IF outcome = "ok"
       THEN /\ PostReceipt(ReceiptData(ExtractedDate))
            /\ LoopTurn(b, FALSE,
                        ProcessedReceipt(IF resp'.body.id # 0 THEN resp'.body.id
                                         ELSE clientNow, name))
       ELSE /\ LoopTurn(b, FALSE, ErrorReceipt(name))
            /\ UNCHANGED serverVars
    /\ UNCHANGED <<clientVariant, clientNow, removedIds>>

Settle(b, outcome) ==
    /\ batches[b].running
    /\ clientNow > batches[b].beganAt
    /\ SettleLocal(b, outcome) \/ SettleBackend(b, outcome)
    /\ settled' = Append(settled, [batch   |-> b,
                                   i       |-> batches[b].i,
                                   name    |-> batches[b].files[batches[b].i],
                                   outcome |-> outcome])

\* App.deleteReceipt(id)
deleteReceipt(id) ==
    /\ id \in Ids(appReceipts)
    /\ appReceipts' = Without(appReceipts, id)
    /\ removedIds' = removedIds \cup {id}
    /\ UNCHANGED <<clientVariant, clientNow, processingFiles, userMessage, batches,
                   settled>>

\* A millisecond passes in the browser.
ClientTick ==
    /\ clientNow < PageOpenedAt + MaxClientTicks
    /\ clientNow' = clientNow + 1
    /\ UNCHANGED <<clientVariant, appReceipts, processingFiles, userMessage,
                   batches, removedIds, settled>>

ClientIdle ==
    /\ clientVariant = "local"
    /\ clientNow = PageOpenedAt
    /\ appReceipts = <<>>
    /\ processingFiles = <<>>
    /\ userMessage = NoMessage
    /\ batches = <<>>
    /\ removedIds = {}
    /\ settled = <<>>

-----------------------------------------------------------------------------
(* Specification of the API *)

AgingIdle ==
    /\ agingInput = NA
    /\ agingResult = [called |-> FALSE]

\* No ReceiptRow rendered yet.
NotRendered == [rendered |-> FALSE]

RowIdle ==
    /\ rowReceipt = [status |-> "Pending", daysPassed |-> 0]
    /\ rowShown = NotRendered

\* The in-memory backend as it starts.
\* No PUT call stands between its update() and its get().
RaceIdle == puts = <<>>

MemoryServerStarted ==
    /\ variant = "memory"
    /\ firebaseInitialized = FALSE
    /\ receipts = <<>>
    /\ receiptId = 1
    /\ docIds = 0
    /\ now = 0
    /\ steps = 0
    /\ deleted = {}
    /\ req = NoRequest
    /\ resp = NoResponse

Init ==
    /\ variant \in Variants
    /\ firebaseInitialized \in (IF variant = "firebase" THEN BOOLEAN ELSE {FALSE})
    /\ receipts = <<>>
    /\ receiptId = 1
    /\ docIds = 0
    /\ now = 0
    /\ steps = 0
    /\ deleted = {}
    /\ req = NoRequest
    /\ resp = NoResponse
    /\ AgingIdle
    /\ ClientIdle
    /\ RowIdle
    /\ RaceIdle

Next ==
    \/ GetReceipts /\ UNCHANGED <<agingVars, clientVars, rowVars, raceVars>>
    \/ \E body \in CreateBodies : PostReceipt(body) /\ UNCHANGED <<agingVars, clientVars, rowVars, raceVars>>
    \/ \E id \in RequestIds, body \in UpdateBodies : PutReceipt(id, body) /\ UNCHANGED <<agingVars, clientVars, rowVars, raceVars>>
    \/ \E id \in RequestIds : DeleteReceipt(id) /\ UNCHANGED <<agingVars, clientVars, rowVars, raceVars>>
    \/ GetAlerts /\ UNCHANGED <<agingVars, clientVars, rowVars, raceVars>>
    \/ GetStats /\ UNCHANGED <<agingVars, clientVars, rowVars, raceVars>>
    \/ GetHealth /\ UNCHANGED <<agingVars, clientVars, rowVars, raceVars>>
    \/ \E sink \in Sinks : SendTelegram(sink) /\ UNCHANGED <<agingVars, clientVars, rowVars, raceVars>>
    \/ \E sink \in Sinks, read \in {"ok", "fails"} :
          ScanAlerts(sink, read) /\ UNCHANGED <<agingVars, clientVars, rowVars, raceVars>>
    \/ Tick /\ UNCHANGED <<agingVars, clientVars, rowVars, raceVars>>

Spec == Init /\ [][Next]_vars

\* The API when every Create comes from the client's upload pipeline.
NextPipeline ==
    \/ GetReceipts /\ UNCHANGED <<agingVars, clientVars, rowVars, raceVars>>
    \/ \E body \in PipelineBodies : PostReceipt(body) /\ UNCHANGED <<agingVars, clientVars, rowVars, raceVars>>
    \/ \E id \in RequestIds, body \in UpdateBodies : PutReceipt(id, body) /\ UNCHANGED <<agingVars, clientVars, rowVars, raceVars>>
    \/ \E id \in RequestIds : DeleteReceipt(id) /\ UNCHANGED <<agingVars, clientVars, rowVars, raceVars>>
    \/ Tick /\ UNCHANGED <<agingVars, clientVars, rowVars, raceVars>>

SpecPipeline == Init /\ [][NextPipeline]_vars

-----------------------------------------------------------------------------
(* Specification of the page, over the in-memory backend *)

InitClient ==
    /\ MemoryServerStarted
    /\ AgingIdle
    /\ RowIdle
    /\ RaceIdle
    /\ clientVariant \in ClientVariants
    /\ clientNow = PageOpenedAt
    /\ appReceipts = <<>>
    /\ processingFiles = <<>>
    /\ userMessage = NoMessage
    /\ batches = <<>>
    /\ removedIds = {}
    /\ settled = <<>>

NextClient ==
    \/ \E files \in Submittable : StartBatch(files) /\ UNCHANGED <<serverVars, agingVars, rowVars, raceVars>>
    \/ \E b \in DOMAIN batches, outcome \in Outcomes : Settle(b, outcome) /\ UNCHANGED <<agingVars, rowVars, raceVars>>
    \/ \E id \in Ids(appReceipts) : deleteReceipt(id) /\ UNCHANGED <<serverVars, agingVars, rowVars, raceVars>>
    \/ ClientTick /\ UNCHANGED <<serverVars, agingVars, rowVars, raceVars>>

SpecClient == InitClient /\ [][NextClient]_vars

-----------------------------------------------------------------------------
(* Specification of the aging calculator alone *)

AgingYears == 2024 .. 2026

IsLeapYear(y) == (y % 4 = 0 /\ y % 100 # 0) \/ y % 400 = 0

DaysInMonth(y, m) ==
    IF m = 2 THEN (IF IsLeapYear(y) THEN 29 ELSE 28)
    ELSE IF m \in {4, 6, 9, 11} THEN 30 ELSE 31

\* The valid order dates of AgingYears, and N/A.
OrderDates ==
    {date \in AgingYears \X (1 .. 12) \X (1 .. 31) :
        date[3] <= DaysInMonth(date[1], date[2])} \cup {NA}

InitAging ==
    /\ MemoryServerStarted
    /\ ClientIdle
    /\ RowIdle
    /\ RaceIdle
    /\ agingInput \in OrderDates
    /\ agingResult = [called |-> FALSE]

\* const { daysPassed, daysLeft } = calculateDateDifference(orderDate)
Calculate ==
    /\ ~agingResult.called
    /\ agingResult' = [called     |-> TRUE,
                       daysPassed |-> calculateDateDifference(agingInput).daysPassed,
                       daysLeft   |-> calculateDateDifference(agingInput).daysLeft]
    /\ UNCHANGED <<agingInput, serverVars, clientVars, rowVars, raceVars>>

\* The next file's order date.
NextOrderDate ==
    /\ agingResult.called
    /\ agingInput' \in OrderDates
    /\ agingResult' = [called |-> FALSE]
    /\ UNCHANGED <<serverVars, clientVars, rowVars, raceVars>>

NextAging == Calculate \/ NextOrderDate

SpecAging == InitAging /\ [][NextAging]_vars

-----------------------------------------------------------------------------
(* Status classifier: ReceiptRow (Dashboard.tsx) *)

\* enum Status
Statuses == {"Pending", "Done", "Delayed/Excused"}

RowDaysSpread == 25
HugeDays == 1000000

\* The daysPassed a row is given: every integer around the boundaries, and two
\* far from them.
RowDaysPassed == (-RowDaysSpread .. RowDaysSpread) \cup {-HugeDays, HugeDays}

RowReceipts == [status : Statuses, daysPassed : RowDaysPassed]

\* getUrgencyStyling with the first two tests in the other order: the
\* classifier C12 must tell apart from the code's.
getUrgencyStylingOverdueFirst(receipt) ==
    IF receipt.daysPassed > 18
        THEN [border |-> "border-red-500", text |-> "text-red-400"]
    ELSE IF receipt.status = "Done"
        THEN [border |-> "border-gray-600", text |-> "text-gray-400"]
    ELSE IF receipt.daysPassed >= 9 /\ receipt.daysPassed <= 18
        THEN [border |-> "border-yellow-500", text |-> "text-yellow-400"]
    ELSE [border |-> "border-green-500", text |-> "text-green-400"]

getUrgencyStyling(receipt) ==
    IF receipt.status = "Done"
        THEN [border |-> "border-gray-600", text |-> "text-gray-400"]
    ELSE IF receipt.daysPassed > 18
        THEN [border |-> "border-red-500", text |-> "text-red-400"]
    ELSE IF receipt.daysPassed >= 9 /\ receipt.daysPassed <= 18
        THEN [border |-> "border-yellow-500", text |-> "text-yellow-400"]
    ELSE [border |-> "border-green-500", text |-> "text-green-400"]

\* The tier label with the lower boundary of DUE SOON one day late: the
\* classifier C13 must tell apart from the code's.
TierLabelLateDueSoon(receipt) ==
    IF receipt.status = "Done" THEN "COMPLETED"
    ELSE IF receipt.daysPassed > 18 THEN "OVERDUE"
    ELSE IF receipt.daysPassed > 9 THEN "DUE SOON"
    ELSE "OK"

\* The tier label ReceiptRow renders.
TierLabel(receipt) ==
    IF receipt.status = "Done" THEN "COMPLETED"
    ELSE IF receipt.daysPassed > 18 THEN "OVERDUE"
    ELSE IF receipt.daysPassed >= 9 THEN "DUE SOON"
    ELSE "OK"

\* The Dashboard counting a Done receipt past the window as overdue: the
\* count C24 must tell apart from the code's.
DashboardCountsDoneOverdue(rs) ==
    [pendingCount   |-> Len(SelectSeq(rs, LAMBDA r : r.status = "Pending"
                                                     /\ r.daysPassed <= 18)),
     overdueCount   |-> Len(SelectSeq(rs, LAMBDA r : r.daysPassed > 18)),
     processedCount |-> Len(SelectSeq(rs, LAMBDA r : r.status = "Done"))]

\* The three counts of the Dashboard over the receipts it is given.
Dashboard(rs) ==
    [pendingCount   |-> Len(SelectSeq(rs, LAMBDA r : r.status = "Pending"
                                                     /\ r.daysPassed <= 18)),
     overdueCount   |-> Len(SelectSeq(rs, LAMBDA r : r.daysPassed > 18
                                                     /\ r.status # "Done")),
     processedCount |-> Len(SelectSeq(rs, LAMBDA r : r.status = "Done"))]

InitRow ==
    /\ MemoryServerStarted
    /\ AgingIdle
    /\ ClientIdle
    /\ RaceIdle
    /\ rowReceipt \in RowReceipts
    /\ rowShown = NotRendered

\* The page renders the receipt: its ReceiptRow, and the Dashboard over it.
RenderRow ==
    /\ ~rowShown.rendered
    /\ rowShown' = [rendered  |-> TRUE,
                    border    |-> getUrgencyStyling(rowReceipt).border,
                    text      |-> getUrgencyStyling(rowReceipt).text,
                    label     |-> TierLabel(rowReceipt),
                    dashboard |-> Dashboard(<<rowReceipt>>)]
    /\ UNCHANGED <<rowReceipt, serverVars, agingVars, clientVars, raceVars>>

\* The row is given another receipt.
NextRowReceipt ==
    /\ rowShown.rendered
    /\ rowReceipt' \in RowReceipts
    /\ rowShown' = NotRendered
    /\ UNCHANGED <<serverVars, agingVars, clientVars, raceVars>>

NextRow == RenderRow \/ NextRowReceipt

SpecRow == InitRow /\ [][NextRow]_vars

-----------------------------------------------------------------------------
(* Claims about the API *)

\* C1: after any sequence of requests, GET /api/alerts returns exactly the
\* stored records with status Pending and 5 <= daysPassed <= 18, each once.
C1_AlertsAreExactlyTheWindow ==
    (req.op = "alerts" /\ resp.code = 200) =>
        LET window == {r \in Range(receipts) :
                          r.status = "Pending" /\ 5 <= r.daysPassed /\ r.daysPassed <= 18}
        IN  /\ Range(resp.body) = window
            /\ Len(resp.body) = Cardinality(window)

\* C1 witness: an alerts response that returns a record and leaves out a
\* Pending record of day 19 and a record of day 4.
C1_Witness ==
    /\ req.op = "alerts" /\ resp.code = 200
    /\ \E r \in Range(resp.body) : r.daysPassed \in {5, 18}
    /\ \E r \in Range(receipts) : r.status = "Pending" /\ r.daysPassed = 19
    /\ \E r \in Range(receipts) : r.status = "Pending" /\ r.daysPassed = 4

\* C2: an Update that carries only note leaves status unchanged, and one that
\* carries only status leaves note unchanged.
C2_UpdateIsPartial ==
    [][(req'.op = "update" /\ resp'.code = 200) =>
          LET old == Find(receipts, req'.id)
              new == Find(receipts', req'.id)
          IN  /\ DOMAIN req'.body = {"note"} => new.status = old.status
              /\ DOMAIN req'.body = {"status"} => new.note = old.note]_vars

\* C3: an Update of an id that is not in the store answers 404 and leaves the
\* store unchanged (the store being available).
C3_UpdateUnknownIdIs404 ==
    [][(req'.op = "update" /\ req'.id \notin Ids(receipts) /\ ~StoreDown) =>
          (resp'.code = 404 /\ receipts' = receipts)]_vars

\* C4: deletion is final: an Update or Delete of a deleted id answers 404, a
\* Delete of an id that is not in the store answers 404, and no stored record
\* ever has a deleted id again (the store being available).
C4_DeletionIsFinal ==
    [][~StoreDown =>
          /\ (req'.op \in {"update", "delete"} /\ req'.id \in deleted) => resp'.code = 404
          /\ (req'.op = "delete" /\ req'.id \notin Ids(receipts)) => resp'.code = 404
          /\ deleted' \cap Ids(receipts') = {}]_vars

\* C5: a Create whose body lacks imageSrc or extractedText answers 400, stores
\* nothing and consumes no id (the store being available).
C5_InvalidCreateIs400 ==
    [][(/\ req'.op = "create"
        /\ ~Has(req'.body, "imageSrc") \/ ~Has(req'.body, "extractedText")
        /\ ~StoreDown) =>
          /\ resp'.code = 400
          /\ receipts' = receipts
          /\ receiptId' = receiptId
          /\ docIds' = docIds]_vars

\* C6 (in-memory backend): a Create that carries imageSrc and extractedText and
\* no orderDate yields orderDate N/A, daysPassed 0, daysLeft 18, status
\* Pending, and the List that follows returns that record first.
C6_CreatedIsFirstInList ==
    [][(/\ variant = "memory"
        /\ req.op = "create" /\ resp.code = 201
        /\ DOMAIN req.body = {"imageSrc", "extractedText"}
        /\ req'.op = "list" /\ resp'.code = 200) =>
          /\ resp.body.orderDate = NA
          /\ resp.body.daysPassed = 0
          /\ resp.body.daysLeft = 18
          /\ resp.body.status = "Pending"
          /\ resp'.body[1] = resp.body]_vars

\* C7: no two live records share an id, and the id of a deleted record is
\* never the id of a live record again: in the backend's store and in the
\* page's list.
C7_IdsUniqueNeverReused ==
    /\ \A i, j \in DOMAIN receipts : receipts[i].id = receipts[j].id => i = j
    /\ deleted \cap Ids(receipts) = {}
    /\ \A i, j \in DOMAIN appReceipts : appReceipts[i].id = appReceipts[j].id => i = j
    /\ removedIds \cap Ids(appReceipts) = {}

\* C8: when every Create carries the pair the aging calculator produced for
\* its orderDate, every stored record has daysLeft = 18 - daysPassed.
C8_DaysLeftIsWindowMinusPassed ==
    \A r \in Range(receipts) : r.daysLeft = 18 - r.daysPassed

-----------------------------------------------------------------------------
(* Claims about the aging calculator *)

\* Days from 2000-01-01 to the first day of year y, counted year by year.
RECURSIVE DaysBeforeYear(_)
DaysBeforeYear(y) ==
    IF y <= 2000 THEN 0
    ELSE DaysBeforeYear(y - 1) + (IF IsLeapYear(y - 1) THEN 366 ELSE 365)

\* Days from the first day of year y to the first day of its month m.
RECURSIVE DaysBeforeMonth(_, _)
DaysBeforeMonth(y, m) ==
    IF m <= 1 THEN 0 ELSE DaysBeforeMonth(y, m - 1) + DaysInMonth(y, m - 1)

\* The calendar's count of days from 2000-01-01 to `date`.
CalendarDay(date) ==
    DaysBeforeYear(date[1]) + DaysBeforeMonth(date[1], date[2]) + date[3] - 1

\* C10: for every valid order date the calculator returns the number of whole
\* days from it to the reference date, negative for a later order date, and
\* daysLeft = 18 - daysPassed.
C10_AgingCountsWholeDays ==
    (agingResult.called /\ agingInput # NA) =>
        /\ agingResult.daysPassed = CalendarDay(Today) - CalendarDay(agingInput)
        /\ agingResult.daysLeft = 18 - agingResult.daysPassed

\* C10 witness: an order date after the reference date.
C10_Witness ==
    /\ agingResult.called
    /\ agingInput = <<2025, 11, 2>>
    /\ agingResult.daysPassed = -9
    /\ agingResult.daysLeft = 27

-----------------------------------------------------------------------------
(* Claims about the aging calculator and the classifier *)

\* C11: for the order date N/A the calculator returns exactly daysPassed 0 and
\* daysLeft 18; the reference date is not consulted.
C11_NAGivesFullWindow ==
    (agingResult.called /\ agingInput = NA) =>
        agingResult = [called |-> TRUE, daysPassed |-> 0, daysLeft |-> 18]

\* C11 witness: the calculator has been called on N/A.
C11_Witness ==
    /\ agingInput = NA
    /\ agingResult.called
    /\ agingResult.daysPassed = 0
    /\ agingResult.daysLeft = 18

\* The colour getUrgencyStyling gives each tier.
TierText ==
    [t \in {"COMPLETED", "OVERDUE", "DUE SOON", "OK"} |->
        CASE t = "COMPLETED" -> "text-gray-400"
          [] t = "OVERDUE"   -> "text-red-400"
          [] t = "DUE SOON"  -> "text-yellow-400"
          [] t = "OK"        -> "text-green-400"]

\* C12: every (status, daysPassed) is given exactly one of the four tiers, by
\* the label and by the styling alike, and status Done is always COMPLETED,
\* for negative and very large daysPassed too.
C12_ClassifierTotalDoneCompleted ==
    rowShown.rendered =>
        /\ rowShown.label \in {"OK", "DUE SOON", "OVERDUE", "COMPLETED"}
        /\ rowShown.text = TierText[rowShown.label]
        /\ rowReceipt.status = "Done" => rowShown.label = "COMPLETED"

\* C12 witness: a Done row far past the window rendered as COMPLETED.
C12_Witness ==
    /\ rowShown.rendered
    /\ rowReceipt = [status |-> "Done", daysPassed |-> HugeDays]
    /\ rowShown.label = "COMPLETED"
    /\ rowShown.text = "text-gray-400"

\* C13: for a status other than Done the tier is OVERDUE iff daysPassed > 18,
\* DUE SOON iff 9 <= daysPassed <= 18, and OK iff daysPassed <= 8.
C13_TierBoundaries ==
    (rowShown.rendered /\ rowReceipt.status # "Done") =>
        /\ rowShown.label = "OVERDUE" <=> rowReceipt.daysPassed > 18
        /\ rowShown.label = "DUE SOON" <=>
              (9 <= rowReceipt.daysPassed /\ rowReceipt.daysPassed <= 18)
        /\ rowShown.label = "OK" <=> rowReceipt.daysPassed <= 8
        /\ rowShown.text = TierText[rowShown.label]

\* C13 witness: a Delayed row of day 9 rendered as DUE SOON.
C13_Witness ==
    /\ rowShown.rendered
    /\ rowReceipt = [status |-> "Delayed/Excused", daysPassed |-> 9]
    /\ rowShown.label = "DUE SOON"

\* C14: in the in-memory and server.js backends, with the store available,
\* GET /api/stats answers 200 with totalReceipts the number of stored records,
\* pendingReceipts the number with status Pending, completedReceipts the
\* number with status Done, and alertReceipts the number with status Pending
\* and daysPassed >= 5, with no upper bound.
C14_StatsCountTheStore ==
    (req.op = "stats" /\ variant # "legacy" /\ ~StoreDown) =>
        LET n(S) == Cardinality({i \in DOMAIN receipts : receipts[i] \in S})
            all  == Range(receipts)
        IN  /\ resp.code = 200
            /\ resp.body.totalReceipts = Len(receipts)
            /\ resp.body.pendingReceipts = n({r \in all : r.status = "Pending"})
            /\ resp.body.completedReceipts = n({r \in all : r.status = "Done"})
            /\ resp.body.alertReceipts =
                  n({r \in all : r.status = "Pending" /\ r.daysPassed >= 5})

\* C14 witness: stats over a Done record and a Pending record of day 19, which
\* is counted in alertReceipts.
C14_Witness ==
    /\ req.op = "stats" /\ resp.code = 200
    /\ \E r \in Range(receipts) : r.status = "Pending" /\ r.daysPassed = 19
    /\ resp.body = [totalReceipts |-> 2, pendingReceipts |-> 1,
                    completedReceipts |-> 1, alertReceipts |-> 1]

\* C15: List returns every stored record exactly once, ordered by uploadedAt
\* descending, and a record created later than another (ids are handed out in
\* creation order) never appears after it.
C15_ListNewestFirst ==
    (req.op = "list" /\ resp.code = 200) =>
        /\ Len(resp.body) = Len(receipts)
        /\ \A r \in Range(receipts) :
              Cardinality({i \in DOMAIN resp.body : resp.body[i] = r}) =
              Cardinality({i \in DOMAIN receipts : receipts[i] = r})
        /\ \A i, j \in DOMAIN resp.body :
              i < j => /\ resp.body[i].uploadedAt >= resp.body[j].uploadedAt
                       /\ resp.body[i].id > resp.body[j].id

\* The data endpoints.
DataOps == {"list", "create", "update", "delete", "alerts", "stats"}

-----------------------------------------------------------------------------
(* Claims about the page *)

\* The processReceiptFile calls of batch b that have settled, in order.
SettledOf(h, b) == SelectSeq(h, LAMBDA e : e.batch = b)

\* The file names of a sequence of receipts or of settled calls.
NamesOf(s) == [k \in DOMAIN s |-> IF "fileName" \in DOMAIN s[k] THEN s[k].fileName
                                  ELSE s[k].name]

\* C17: when a call of handleFilesProcess ends, every file of the batch has
\* been processed, in order, the files after a failed one included; each file
\* that succeeded has its receipt among the batch's new receipts, and those
\* are put in front of the receipts list.
C17_FailureDoesNotStopBatch ==
    [][\A b \in DOMAIN batches :
          (batches[b].running /\ ~batches'[b].running) =>
              LET done == SettledOf(settled', b)
                  new  == batches'[b].newReceipts
                  ok   == SelectSeq(done, LAMBDA e : e.outcome = "ok")
              IN  /\ NamesOf(done) = batches[b].files
                  /\ \A k \in DOMAIN done : done[k].i = k
                  /\ NamesOf(SelectSeq(new, LAMBDA r : r.orderDate # NA)) = NamesOf(ok)
                  /\ appReceipts' = new \o appReceipts]_vars

\* C17 witness: a batch of two files has ended; its first file failed, its
\* second succeeded and is in the receipts list.
C17_Witness ==
    \E b \in DOMAIN batches :
        /\ ~batches[b].running
        /\ Len(batches[b].files) = 2
        /\ SettledOf(settled, b)[1].outcome = "extractionFails"
        /\ SettledOf(settled, b)[2].outcome = "ok"
        /\ \E r \in Range(appReceipts) :
              r.fileName = batches[b].files[2] /\ r.orderDate = ExtractedDate

\* C18: when a call of handleFilesProcess ends, a file whose extraction or
\* save failed has been reported as an error, has no receipt among the batch's
\* new receipts, and is not counted in the success message.
C18_FailedFileIsNotAReceipt ==
    [][\A b \in DOMAIN batches :
          (batches[b].running /\ ~batches'[b].running) =>
              LET done   == SettledOf(settled', b)
                  new    == batches'[b].newReceipts
                  ok     == SelectSeq(done, LAMBDA e : e.outcome = "ok")
                  failed == SelectSeq(done, LAMBDA e : e.outcome # "ok")
              IN  /\ Len(failed) > 0 => batches'[b].hadError
                  /\ NamesOf(new) = NamesOf(ok)
                  /\ userMessage'.type = "success" => userMessage'.count = Len(ok)]_vars

\* The calls of handleFilesProcess that are awaiting processReceiptFile: each
\* has exactly one file inside the extraction pipeline.
InPipeline == {b \in DOMAIN batches : batches[b].running}

\* C19: at any moment at most one file is inside the extraction pipeline, also
\* when files are dropped or synced while an earlier batch is processing; and
\* within a batch file k + 1 starts only after file k has settled.
C19_OneFileAtATime ==
    /\ Cardinality(InPipeline) <= 1
    /\ \A b \in DOMAIN batches :
          Len(SettledOf(settled, b)) =
              (IF batches[b].running THEN batches[b].i - 1 ELSE Len(batches[b].files))

-----------------------------------------------------------------------------
(* Claims about alert delivery *)

\* C20: sendTelegramMessage returns normally whatever the sink does,
\* checkAndSendAlerts completes without an error leaving it, whether the send
\* or the store query failed, and the stored records are the same after as
\* before.
C20_DeliveryFailureNeverFailsScan ==
    [][/\ req'.op = "send" => (~resp'.body.thrown /\ receipts' = receipts)
       /\ req'.op = "scan" =>
             /\ ~resp'.body.thrown
             /\ ~resp'.body.sendThrown
             /\ receipts' = receipts
             /\ deleted' = deleted]_vars

\* C20 witness: a scan over an alertable record whose send threw has completed.
C20_Witness ==
    /\ req.op = "scan" /\ req.sink = "throws" /\ req.read = "ok"
    /\ resp.body.alertCount = 1
    /\ ~resp.body.posted /\ resp.body.logged /\ ~resp.body.thrown

-----------------------------------------------------------------------------
(* Claims about Update *)

\* C21: an Update of an existing id is always accepted, whatever other Update
\* of that id was applied just before it, and it leaves in each of status and
\* note the value it supplied, or, when it supplied none, the value already
\* there; so after two concurrent Updates each field holds the value of the
\* last-applied Update that supplied it.
C21_LastWriteWinsPerField ==
    [][(req'.op = "update" /\ req'.id \in Ids(receipts) /\ ~StoreDown
        /\ variant # "legacy") =>
          LET old == Find(receipts, req'.id)
              new == Find(receipts', req'.id)
              b   == req'.body
          IN  /\ resp'.code = 200
              /\ new.status = (IF Has(b, "status") THEN b.status ELSE old.status)
              /\ new.note = (IF Has(b, "note") THEN b.note ELSE old.note)]_vars

\* C22 as claimed: an Update whose body omits updatedBy leaves the record's
\* updatedBy unchanged.
C22_OmittedActorUnchanged ==
    [][(req'.op = "update" /\ resp'.code = 200 /\ ~Has(req'.body, "updatedBy")) =>
          Find(receipts', req'.id).updatedBy = Find(receipts, req'.id).updatedBy]_vars

\* C22 amended: every Update stamps the record's updatedBy: with the body's
\* updatedBy when it carries a non-empty one, else with the default actor,
\* 'user' ('unknown' in the legacy file), whatever the record held before.
C22_UpdateStampsActor ==
    [][(req'.op = "update" /\ resp'.code = 200) =>
          Find(receipts', req'.id).updatedBy =
              (IF Has(req'.body, "updatedBy") /\ req'.body.updatedBy # ""
                  THEN req'.body.updatedBy
               ELSE IF variant = "legacy" THEN "unknown" ELSE "user")]_vars

\* C22 witness: an Update that carried no updatedBy has left 'user' in a
\* record (created with 'system').
C22_Witness ==
    /\ req.op = "update" /\ resp.code = 200
    /\ ~Has(req.body, "updatedBy")
    /\ Find(receipts, req.id).updatedBy = "user"

\* The fields of a record set at creation.
CreationFields ==
    {"id", "imageSrc", "extractedText", "orderDate", "daysPassed", "daysLeft",
     "fileName", "uploadedAt"}

\* C23: an Update, accepted or not, changes no record's id, imageSrc,
\* extractedText, orderDate, daysPassed, daysLeft, fileName or uploadedAt, adds
\* and removes no record, and changes no field at all of the other records.
C23_UpdateKeepsCreationFields ==
    [][req'.op = "update" =>
          /\ Len(receipts') = Len(receipts)
          /\ \A k \in DOMAIN receipts :
                /\ DOMAIN receipts'[k] = DOMAIN receipts[k]
                /\ \A f \in CreationFields \cap DOMAIN receipts[k] :
                      receipts'[k][f] = receipts[k][f]
                /\ receipts[k].id # req'.id => receipts'[k] = receipts[k]]_vars

\* C23 witness: an Update a millisecond after the Create has changed status
\* and updatedAt and left uploadedAt.
C23_Witness ==
    /\ req.op = "update" /\ resp.code = 200
    /\ resp.body.status = "Done"
    /\ resp.body.updatedAt > resp.body.uploadedAt
    /\ resp.body.orderDate # NA

-----------------------------------------------------------------------------
(* Claims about the classification in the page and in the scan *)

\* C24: for every (status, daysPassed) the tier of the row's styling is the
\* tier of the row's label, and the Dashboard counts the receipt as overdue
\* iff that tier is OVERDUE.
C24_OneClassification ==
    rowShown.rendered =>
        /\ rowShown.text = TierText[rowShown.label]
        /\ rowShown.dashboard.overdueCount = (IF rowShown.label = "OVERDUE" THEN 1 ELSE 0)
        /\ rowShown.dashboard.processedCount =
              (IF rowShown.label = "COMPLETED" THEN 1 ELSE 0)

\* C24 witness: a Delayed receipt of day 19 is styled red, labelled OVERDUE and
\* counted as overdue.
C24_Witness ==
    /\ rowShown.rendered
    /\ rowReceipt = [status |-> "Delayed/Excused", daysPassed |-> 19]
    /\ rowShown.text = "text-red-400"
    /\ rowShown.label = "OVERDUE"
    /\ rowShown.dashboard.overdueCount = 1

\* C25: in the summary of a scan whose store query succeeded, the records
\* listed are the alertable ones, each labelled DUE SOON iff 9 <= daysPassed
\* <= 18 and DAY 5+ iff 5 <= daysPassed <= 8, never OVERDUE; Total Alerts is
\* the number of records listed; and sendTelegramMessage is called iff at
\* least one stored record is alertable.
C25_ScanSummaryTiers ==
    (req.op = "scan" /\ req.read = "ok") =>
        LET s == resp.body IN
        /\ s.listed = SelectSeq(receipts, Alertable)
        /\ DOMAIN s.tiers = DOMAIN s.listed
        /\ \A k \in DOMAIN s.listed :
              /\ s.tiers[k] = "DUE SOON" <=>
                    (9 <= s.listed[k].daysPassed /\ s.listed[k].daysPassed <= 18)
              /\ s.tiers[k] = "DAY 5+" <=>
                    (5 <= s.listed[k].daysPassed /\ s.listed[k].daysPassed <= 8)
              /\ s.tiers[k] # "OVERDUE"
        /\ s.alertCount = Len(s.listed)
        /\ s.sendCalled <=> (\E r \in Range(receipts) : Alertable(r))

\* C25 witness: a scan over records of day 5, 18 and 19 has listed the first
\* two, as DAY 5+ and DUE SOON, and called the send.
C25_Witness ==
    /\ req.op = "scan" /\ req.read = "ok"
    /\ resp.body.alertCount = 2
    /\ Range(resp.body.tiers) = {"DAY 5+", "DUE SOON"}
    /\ \E r \in Range(receipts) : r.status = "Pending" /\ r.daysPassed = 19
    /\ resp.body.sendCalled

-----------------------------------------------------------------------------
(* Claims about the page's processing indicator *)

\* C26: while a call of handleFilesProcess still has a file waiting or being
\* processed, processingFiles is not empty, also when two overlapping batches
\* hold files of the same name; and once every call has ended it is empty.
C26_ProcessingWhileAnyBatchRuns ==
    /\ InPipeline # {} => processingFiles # <<>>
    /\ InPipeline = {} => processingFiles = <<>>

-----------------------------------------------------------------------------
(* Claims about the read endpoints and the counts *)

ReadOps == {"list", "alerts", "stats"}

\* The number of times r occurs in s.
Occurrences(s, r) == Cardinality({k \in DOMAIN s : s[k] = r})

\* C27: a read endpoint (GET /api/receipts, /api/alerts, /api/stats) adds,
\* removes and modifies no stored record: the same records with the same field
\* values are stored after the call as before it, and the alertable records
\* and the stats computed from the store after it are those computed before
\* it.  GET /api/alerts and GET /api/stats leave the store as it was; the
\* in-memory GET /api/receipts sorts the stored array in place, which changes
\* the order of the records and nothing else.
C27_ReadsKeepTheRecords ==
    [][req'.op \in ReadOps =>
          /\ Len(receipts') = Len(receipts)
          /\ Range(receipts') = Range(receipts)
          /\ \A r \in Range(receipts) :
                Occurrences(receipts', r) = Occurrences(receipts, r)
          /\ Len(SelectSeq(receipts', Alertable)) = Len(SelectSeq(receipts, Alertable))
          /\ Range(SelectSeq(receipts', Alertable)) = Range(SelectSeq(receipts, Alertable))
          /\ Stats(receipts') = Stats(receipts)
          /\ (req'.op # "list" \/ variant # "memory") => receipts' = receipts]_vars

\* C27 witness: the in-memory List has been answered over two alertable
\* records created a millisecond apart, and the stored array is newest first.
C27_Witness ==
    /\ variant = "memory"
    /\ req.op = "list" /\ resp.code = 200
    /\ Len(receipts) = 2
    /\ receipts[1].id = 2 /\ receipts[2].id = 1
    /\ receipts[1].uploadedAt > receipts[2].uploadedAt
    /\ Alertable(receipts[1]) /\ Alertable(receipts[2])

-----------------------------------------------------------------------------
(* The Firestore PUT handler as the two awaits it is made of: update(), then
   get().  Another request can be served between the two. *)

FirestoreVariants == {"firebase", "legacy"}

MaxPuts == 2

Written == "written"
Answered == "answered"

\* PUT /api/receipts/:id up to and including `await ...update(updateData)`.
\* A call that is refused or throws ends here with its answer.
PutWrite(id, body) ==
    LET request == [op |-> "update", id |-> id, body |-> body]
        updateData == UpdateRecord(Find(receipts, id), body)
    IN
    /\ Len(puts) < MaxPuts
    /\ IF StoreDown THEN Unavailable(request) /\ UNCHANGED puts
       ELSE IF variant = "legacy" /\ HasUndefined(body, {"status", "note"})
           THEN /\ Answer(request, 500, [error |-> "Cannot use undefined as a Firestore value"])
                /\ UNCHANGED <<variant, firebaseInitialized, receipts, receiptId,
                               docIds, now, steps, deleted, puts>>
       ELSE IF id \notin Ids(receipts)
           THEN /\ Answer(request, 500, [error |-> "No document to update"])
                /\ UNCHANGED <<variant, firebaseInitialized, receipts, receiptId,
                               docIds, now, steps, deleted, puts>>
       ELSE /\ steps < MaxSteps
            /\ receipts' = ReplaceRecord(receipts, id, updateData)
            /\ puts' = Append(puts, [id |-> id, body |-> body, phase |-> Written,
                                     status |-> updateData.status,
                                     note |-> updateData.note])
            /\ steps' = steps + 1
            /\ req' = [op |-> "update-write", id |-> id, body |-> body]
            /\ resp' = NoResponse
            /\ UNCHANGED <<variant, firebaseInitialized, receiptId, docIds, now, deleted>>

\* The rest of the handler: `doc = await ...get()` and
\* `res.json({ id: doc.id, ...doc.data() })`.  data() of a document that is no
\* longer there is undefined, and spreading it adds nothing to { id }.
PutReadBack(k) ==
    LET call == puts[k]
        request == [op |-> "update", id |-> call.id, body |-> call.body]
        doc == IF call.id \in Ids(receipts) THEN Find(receipts, call.id)
               ELSE [id |-> call.id]
    IN
    /\ call.phase = Written
    /\ Answer(request, 200, doc)
    /\ puts' = [puts EXCEPT ![k] = [call EXCEPT !.phase = Answered] @@ [response |-> doc]]
    /\ UNCHANGED <<variant, firebaseInitialized, receipts, receiptId, docIds,
                   now, steps, deleted>>

InitRace ==
    /\ variant \in FirestoreVariants
    /\ firebaseInitialized = (variant = "firebase")
    /\ receipts = <<>>
    /\ receiptId = 1
    /\ docIds = 0
    /\ now = 0
    /\ steps = 0
    /\ deleted = {}
    /\ req = NoRequest
    /\ resp = NoResponse
    /\ AgingIdle
    /\ ClientIdle
    /\ RowIdle
    /\ RaceIdle

NextRace ==
    \/ \E body \in PipelineBodies : PostReceipt(body) /\ UNCHANGED <<agingVars, clientVars, rowVars, raceVars>>
    \/ \E id \in RequestIds, body \in UpdateBodies : PutWrite(id, body) /\ UNCHANGED <<agingVars, clientVars, rowVars>>
    \/ \E k \in DOMAIN puts : PutReadBack(k) /\ UNCHANGED <<agingVars, clientVars, rowVars>>
    \/ \E id \in RequestIds : DeleteReceipt(id) /\ UNCHANGED <<agingVars, clientVars, rowVars, raceVars>>
    \/ Tick /\ UNCHANGED <<agingVars, clientVars, rowVars, raceVars>>

SpecRace == InitRace /\ [][NextRace]_vars

\* The answered PUT calls.
AnsweredPuts == {k \in DOMAIN puts : puts[k].phase = Answered}

\* C28: the record a successful Update(id, ...) returns is the record of that
\* id and carries the status and the note this request wrote, whatever other
\* Update or Delete of the same id was served between its write and its
\* read-back.
C28_UpdateReturnsItsOwnWrite ==
    \A k \in AnsweredPuts :
        LET call == puts[k] IN
        /\ call.response.id = call.id
        /\ "status" \in DOMAIN call.response /\ call.response.status = call.status
        /\ "note" \in DOMAIN call.response /\ call.response.note = call.note

\* C29: in every store state the counts of GET /api/stats are consistent with
\* each other and with GET /api/alerts: alertReceipts <= pendingReceipts,
\* pendingReceipts + completedReceipts <= totalReceipts, and GET /api/alerts
\* returns at most alertReceipts records.
C29_CountsAreConsistent ==
    LET stats == Stats(receipts)
        alerts == SelectSeq(receipts, Alertable)
    IN
    /\ stats.alertReceipts <= stats.pendingReceipts
    /\ stats.pendingReceipts + stats.completedReceipts <= stats.totalReceipts
    /\ Len(alerts) <= stats.alertReceipts

\* C29 witness: GET /api/stats has answered over a store where a Pending record
\* is past the alerts window and another record is neither Pending nor Done,
\* so two of the three inequalities are strict.
C29_Witness ==
    /\ req.op = "stats" /\ resp.code = 200
    /\ resp.body = Stats(receipts)
    /\ resp.body.alertReceipts >= 1
    /\ Len(SelectSeq(receipts, Alertable)) < resp.body.alertReceipts
    /\ resp.body.pendingReceipts + resp.body.completedReceipts < resp.body.totalReceipts

=============================================================================
